---- MODULE Spec2Model ----
(***************************************************************************)
(* A model of web-gdb's MI protocol engine: GdbMiSession (src/gdbmi.py),   *)
(* the record classifier it reads through (src/mi_parse.py) and the        *)
(* request handlers that call it (src/app.py).                             *)
(*                                                                         *)
(* The session's callers, its background reader threads and the gdb        *)
(* processes are the processes of the model.  A caller is inside at most   *)
(* one session operation; an operation is a sequence of steps separated by *)
(* the places where it waits on the event queue.                           *)
(***************************************************************************)
EXTENDS Integers, Sequences, FiniteSets, TLC

\* ------------------------------------------------------------ bounds
MaxCmds == 5          \* command lines written in one behaviour
MaxTimeouts == 1      \* deadlines of cmd that pass in one behaviour
MaxSnapCmds == 9      \* the same two, in the behaviours of SpecSnap
MaxSnapTimeouts == 2
MaxGens == 3          \* gdb processes spawned in one behaviour
MaxConcCmds == 2      \* command lines and deadlines, in the behaviours of SpecConc
MaxConcTimeouts == 1
MaxDownCmds == 4      \* the same, in the behaviours of SpecDown
MaxDownTimeouts == 1
MaxLen == 5           \* characters of a fragment given to _split_top
MaxLiveCmds == 4      \* command lines, and deadlines, in the behaviours of SpecLive
MaxToggleCmds == 9    \* command lines written in the behaviours of SpecToggle
MaxToggleTimeouts == 1
MaxBreakpoints == 2   \* breakpoints gdb has made when one more is asked for at a function

\* ------------------------------------------------------------ values
NoProc == 0                       \* self.proc = None
NoWait == "<None>"                \* wait_for = None
Callers == {1, 2}                 \* request-handler threads of the front end

ContOps == {"run", "cont", "stepi", "nexti", "step", "next", "finish"}

ExecCmd(o) ==
    CASE o = "run" -> "-exec-run"
      [] o = "cont" -> "-exec-continue"
      [] o = "stepi" -> "-exec-step-instruction"
      [] o = "nexti" -> "-exec-next-instruction"
      [] o = "step" -> "-exec-step"
      [] o = "next" -> "-exec-next"
      [] o = "finish" -> "-exec-finish"

ExecCmds == {ExecCmd(o) : o \in ContOps}

\* A payload is a mapping; the model keeps the one top-level key the engine
\* looks at and the value under it.
EmptyPayload == [key |-> "", val |-> <<>>]

\* The empty dict {} that cmd returns when it saw no Result record.
EmptyRec == [kind |-> "", cls |-> "", payload |-> EmptyPayload, id |-> 0]

\* parse_mi_line's None.
NoRec == [kind |-> "None", cls |-> "", payload |-> EmptyPayload, id |-> 0]

\* res.get("payload", {}).get(key, default)
PGet(res, key, default) ==
    IF res.payload.key = key THEN res.payload.val ELSE default

\* A protocol line: its prefix character, the class up to the first comma and
\* the payload after it.  id is the serial of the command the line answers
\* (0: unsolicited); it is not visible to the engine.
Line(prefix, cls, payload, id) ==
    [prefix |-> prefix, cls |-> cls, payload |-> payload, id |-> id]

parse_mi_line(line) ==
    IF line.prefix \in {"~", "&", "@"}
    THEN [kind |-> "stream", cls |-> "", payload |-> EmptyPayload, id |-> line.id]
    ELSE IF line.prefix = "^"
    THEN [kind |-> "result", cls |-> line.cls, payload |-> line.payload, id |-> line.id]
    ELSE IF line.prefix = "*"
    THEN [kind |-> "async", cls |-> line.cls, payload |-> line.payload, id |-> line.id]
    ELSE IF line.prefix = "="
    THEN [kind |-> "notify", cls |-> line.cls, payload |-> line.payload, id |-> line.id]
    ELSE NoRec

\* ------------------------------------------------------------ hexadecimal
\* A string the code takes apart is a sequence of its characters; a string it
\* only builds and writes is a string.
HexDigits == <<"0", "1", "2", "3", "4", "5", "6", "7", "8", "9",
               "a", "b", "c", "d", "e", "f">>
UpperDigits == <<"0", "1", "2", "3", "4", "5", "6", "7", "8", "9",
                 "A", "B", "C", "D", "E", "F">>

IsHexDigit(ch) == \E d \in 1..16 : ch = HexDigits[d] \/ ch = UpperDigits[d]

DigitValue(ch) == (CHOOSE d \in 1..16 : ch = HexDigits[d] \/ ch = UpperDigits[d]) - 1

\* The ValueError of int(str, 16).
ValueError == 0 - 1

RECURSIVE DigitsValue(_, _)
DigitsValue(chars, acc) ==
    IF chars = <<>> THEN acc
    ELSE DigitsValue(Tail(chars), 16 * acc + DigitValue(Head(chars)))

\* int(str, 16): an optional 0x or 0X, then one hex digit or more.
Int16(chars) ==
    LET digits == IF Len(chars) >= 2 /\ chars[1] = "0" /\ chars[2] \in {"x", "X"}
                  THEN SubSeq(chars, 3, Len(chars))
                  ELSE chars
    IN IF digits # <<>> /\ \A i \in 1..Len(digits) : IsHexDigit(digits[i])
       THEN DigitsValue(digits, 0)
       ELSE ValueError

RECURSIVE LowerHex(_)
LowerHex(n) ==
    IF n < 16 THEN HexDigits[n + 1]
    ELSE LowerHex(n \div 16) \o HexDigits[(n % 16) + 1]

\* hex(n), for n >= 0: 0x and the digits, no leading zero.
Hex(n) == "0x" \o LowerHex(n)

\* ------------------------------------------------------------ gdb's lines
StopPayloads == {[key |-> "reason", val |-> <<"breakpoint-hit">>],
                 [key |-> "reason", val |-> <<"end-stepping-range">>]}

RegNameTables == {<<"", "rsp">>}

\* register-values: entries of number (a decimal string) and value.
RegValueLists == {<<[number |-> "1", value |-> "0x7ffe0"]>>,
                  <<[number |-> "1", value |-> ""]>>,
                  <<[number |-> "0", value |-> "0x1"], [number |-> "2", value |-> "0x2"]>>}

\* memory: one block, its contents as the number of bytes the hex string holds.
MemoryLists == {<<>>, <<[contents |-> 0]>>, <<[contents |-> 12]>>}

ErrorLine(id) == Line("^", "error", [key |-> "msg", val |-> <<>>], id)

DoneLines(key, vals, id) == {Line("^", "done", [key |-> key, val |-> v], id) : v \in vals}

\* What gdb may answer to one command that is not about breakpoints.
Replies(text, id) ==
    IF text \in ExecCmds
    THEN {Line("^", "running", EmptyPayload, id), ErrorLine(id)}
    ELSE IF text = "-data-list-register-names"
    THEN DoneLines("register-names", RegNameTables, id) \cup {ErrorLine(id)}
    ELSE IF text = "-data-list-register-values"
    THEN DoneLines("register-values", RegValueLists, id) \cup {ErrorLine(id)}
    ELSE IF text = "-stack-list-frames"
    THEN DoneLines("stack", {<<"frame0">>}, id) \cup {ErrorLine(id)}
    ELSE IF text = "-data-disassemble"
    THEN DoneLines("asm_insns", {<<"insn0">>}, id) \cup {ErrorLine(id)}
    ELSE IF text = "-data-read-memory-bytes"
    THEN DoneLines("memory", MemoryLists, id) \cup {ErrorLine(id)}
    ELSE {Line("^", "done", EmptyPayload, id), ErrorLine(id)}

\* What gdb prints as it starts: a notification and its prompt.
Banner == <<Line("=", "thread-group-added", [key |-> "id", val |-> <<"i1">>], 0),
            Line("(", "gdb)", EmptyPayload, 0)>>

\* What follows ^running: the async record that the threads run.
RunningLine == Line("*", "running", [key |-> "thread-id", val |-> <<"all">>], 0)

\* What precedes *stopped: the console text of the stop.
ConsoleLine == Line("~", "", EmptyPayload, 0)

VARIABLES
    \* GdbMiSession
    args, proc, q, reg_names, last_stop, running,
    \* the gdb processes and the reader threads
    nprocs, alive, readers, stdout, stdin, inferior, fresh,
    \* the callers
    pc, op, step, call, loc, last,
    \* history, and what bounds the behaviour
    nwritten, ntimeouts, budget,
    \* gdb's breakpoints, and a run of _split_top
    table, split

session == <<args, proc, q, reg_names, last_stop, running>>
world == <<nprocs, alive, readers, stdout, stdin, inferior, fresh>>
callers == <<pc, op, step, call, loc, last>>
others == <<budget, table, split>>

\* ------------------------------------------------------------ gdb's breakpoints
\* A gdb process as it starts: no breakpoint, the next one is number 1.
NoBreakpoints == [rows |-> <<>>, next |-> 1]

\* Where main is, and another instruction.
MainAddr == Int16(<<"4", "0", "1", "a", "0", "0">>)
OtherAddr == MainAddr + 4
Addrs == {MainAddr, OtherAddr}

RECURSIVE Zeros(_)
Zeros(n) == IF n = 0 THEN <<>> ELSE <<"0">> \o Zeros(n - 1)

RECURSIVE LowerDigits(_)
LowerDigits(n) ==
    IF n < 16 THEN <<HexDigits[n + 1]>>
    ELSE Append(LowerDigits(n \div 16), HexDigits[(n % 16) + 1])

\* addr as gdb prints it: 0x and sixteen digits.
PadHex(n) == <<"0", "x">> \o Zeros(16 - Len(LowerDigits(n))) \o LowerDigits(n)

\* The locations the callers ask for: a function at one place, a function at
\* several places, an address.
Specs == {"main", "f"} \cup {"*" \o Hex(a) : a \in Addrs}

\* The rows gdb may make for a location; a breakpoint at several places
\* prints <MULTIPLE> as its addr, or no addr.
NewRows(spec, number) ==
    IF spec = "main" THEN {[number |-> number, addr |-> PadHex(MainAddr)]}
    ELSE IF spec = "f"
    THEN {[number |-> number, addr |-> <<"<", "M", "U", "L", "T", "I", "P", "L", "E", ">">>],
          [number |-> number]}
    ELSE {[number |-> number, addr |-> PadHex(a)] : a \in {a \in Addrs : spec = "*" \o Hex(a)}}

\* The rows without the one of that number.
RECURSIVE Without(_, _)
Without(rows, number) ==
    IF rows = <<>> THEN <<>>
    ELSE IF Head(rows).number = number THEN Without(Tail(rows), number)
    ELSE <<Head(rows)>> \o Without(Tail(rows), number)

\* What gdb may answer to one command, and the breakpoints it has then.
GdbAnswers(text, id) ==
    IF text = "-break-list"
    THEN {[line |-> Line("^", "done",
                         [key |-> "BreakpointTable",
                          val |-> [body |-> [i \in 1..Len(table.rows) |->
                                                [bkpt |-> table.rows[i]]]]], id),
           table |-> table]}
    ELSE IF \E spec \in Specs : text = "-break-insert " \o spec
    THEN LET spec == CHOOSE spec \in Specs : text = "-break-insert " \o spec
         IN {[line |-> Line("^", "done", [key |-> "bkpt", val |-> row], id),
              table |-> [rows |-> Append(table.rows, row), next |-> table.next + 1]] :
             row \in NewRows(spec, ToString(table.next))}
    ELSE IF \E i \in 1..Len(table.rows) : text = "-break-delete " \o table.rows[i].number
    THEN LET i == CHOOSE i \in 1..Len(table.rows) :
                      text = "-break-delete " \o table.rows[i].number
         IN {[line |-> Line("^", "done", EmptyPayload, id),
              table |-> [table EXCEPT !.rows = Without(@, table.rows[i].number)]]}
    ELSE {[line |-> line, table |-> table] : line \in Replies(text, id)}
history == <<nwritten, ntimeouts, others>>
vars == <<session, world, callers, history>>

\* The frame of a call of cmd.
NoCall == [text |-> "", wait_for |-> NoWait, procAt |-> NoProc, how |-> "",
           serial |-> 0, last_result |-> EmptyRec, seen |-> <<>>, ret |-> EmptyRec]

\* The locals of snapshot, and the command lines the operation has written.
\* own is history: for each cmd of the operation that returned, gdb's answer to
\* that command if the reader had queued it by then (else {}).
NoLoc == [sent |-> <<>>, regmap |-> [n \in {} |-> ""], frames |-> <<>>, asm |-> <<>>,
          stack_view |-> <<>>, own |-> <<>>, addr |-> <<>>, want |-> 0, bps |-> <<>>,
          before |-> <<>>]

\* What the last operation of a caller returned, until its next one is under way.
NoLast == [op |-> "none", outcome |-> "", ack |-> EmptyRec, val |-> <<>>]

InitSession(b) ==
    /\ budget = b
    /\ table = NoBreakpoints
    /\ args \in {<<>>, <<"a">>}
    /\ proc = NoProc
    /\ q = <<>>
    /\ reg_names = <<>>
    /\ last_stop = EmptyPayload
    /\ running = FALSE
    /\ nprocs = 0
    /\ alive = {}
    /\ readers = {}
    /\ stdout = [g \in 1..MaxGens |-> <<>>]
    /\ stdin = <<>>
    /\ inferior = FALSE
    /\ fresh = FALSE
    /\ pc = [c \in Callers |-> "idle"]
    /\ op = [c \in Callers |-> "none"]
    /\ step = [c \in Callers |-> 0]
    /\ call = [c \in Callers |-> NoCall]
    /\ loc = [c \in Callers |-> NoLoc]
    /\ last = [c \in Callers |-> NoLast]
    /\ nwritten = 0
    /\ ntimeouts = 0

\* No run of _split_top.
NoSplit == [at |-> "none", s |-> <<>>, i |-> 0, out |-> <<>>, buf |-> <<>>, depth |-> 0,
            in_str |-> FALSE, esc |-> FALSE]

InitWith(b) ==
    /\ split = NoSplit
    /\ InitSession(b)

Init == InitWith([cmds |-> MaxCmds, timeouts |-> MaxTimeouts])

\* ------------------------------------------------------------ cmd
\* The stdin pipe of process p takes a write: the process has not exited.
Up(p) == p \in alive

\* cmd up to the start of its polling loop: the call's frame.  how says how it
\* went on: "raise" (no process), "pipe" (_write failed on a closed pipe),
\* "nowait" (fire-and-forget, returned {}), "wait" (entered the loop).
cmd_NoCheck(mi_cmd, wait_for, p, up) ==
    [text |-> mi_cmd, wait_for |-> wait_for, procAt |-> p,
     how |-> IF wait_for = NoWait THEN "nowait" ELSE "wait",
     serial |-> nwritten + 1,
     last_result |-> EmptyRec, seen |-> <<>>, ret |-> EmptyRec]

cmd(mi_cmd, wait_for, p, up) ==
    [text |-> mi_cmd, wait_for |-> wait_for, procAt |-> p,
     how |-> IF p = NoProc THEN "raise"
             ELSE IF ~up THEN "pipe"
             ELSE IF wait_for = NoWait THEN "nowait" ELSE "wait",
     serial |-> IF p = NoProc \/ ~up THEN 0 ELSE nwritten + 1,
     last_result |-> EmptyRec, seen |-> <<>>, ret |-> EmptyRec]

Wrote(k) == k.how \in {"nowait", "wait"}
Raised(k) == k.how \in {"raise", "pipe"}

\* _write: one line onto the process's stdin.
_write(k) ==
    /\ Wrote(k) => nwritten < budget.cmds
    /\ nwritten' = IF Wrote(k) THEN nwritten + 1 ELSE nwritten
    /\ stdin' = IF Wrote(k) THEN Append(stdin, [text |-> k.text, id |-> k.serial]) ELSE stdin

\* The operation o of caller c returns val (or raises) to its caller.
Return(c, o, outcome, ack, val) ==
    /\ pc' = [pc EXCEPT ![c] = "idle"]
    /\ op' = [op EXCEPT ![c] = "none"]
    /\ step' = [step EXCEPT ![c] = 0]
    /\ last' = [last EXCEPT ![c] = [op |-> o, outcome |-> outcome, ack |-> ack, val |-> val]]

\* Operation o of caller c calls cmd at its step s, with the frame k; l are the
\* operation's locals at the call.
Enter(c, o, s, k, l) ==
    /\ _write(k)
    /\ IF Raised(k)
       THEN /\ Return(c, o, k.how, EmptyRec, l.sent)
            /\ call' = [call EXCEPT ![c] = NoCall]
            /\ loc' = [loc EXCEPT ![c] = NoLoc]
       ELSE /\ pc' = [pc EXCEPT ![c] = IF k.how = "wait" THEN "poll" ELSE "ret"]
            /\ op' = [op EXCEPT ![c] = o]
            /\ step' = [step EXCEPT ![c] = s]
            /\ call' = [call EXCEPT ![c] = k]
            /\ loc' = [loc EXCEPT ![c] = [l EXCEPT !.sent = Append(@, k.text)]]
            /\ last' = [last EXCEPT ![c] = NoLast]

\* The operation o of caller c returns val after its last cmd.
Leave(c, o, ack, val) ==
    /\ Return(c, o, "ok", ack, val)
    /\ call' = [call EXCEPT ![c] = NoCall]
    /\ loc' = [loc EXCEPT ![c] = NoLoc]

IsStop(rec) == rec.kind = "async" /\ rec.cls = "stopped"

Matches_AnyResult(wait_for, rec) ==
    rec.kind = "result"

Matches(wait_for, rec) ==
    rec.kind = "result" /\ (wait_for = rec.cls \/ wait_for = "any")

\* The record q.get takes.
Get(queue) == Head(queue)

\* One iteration of cmd's loop that gets a record.
CmdPoll(c) ==
    /\ pc[c] = "poll"
    /\ q # <<>>
    /\ LET rec == Get(q)
           k == call[c]
       IN /\ q' = Tail(q)
          /\ IF IsStop(rec)
             THEN last_stop' = rec.payload /\ running' = FALSE
             ELSE UNCHANGED <<last_stop, running>>
          /\ call' = [call EXCEPT ![c] =
                 [k EXCEPT !.seen = IF rec.kind = "result" THEN Append(@, rec) ELSE @,
                           !.last_result = IF rec.kind = "result" THEN rec ELSE @,
                           !.ret = IF Matches(k.wait_for, rec) THEN rec ELSE @,
                           !.how = IF Matches(k.wait_for, rec) THEN "match" ELSE @]]
          /\ pc' = [pc EXCEPT ![c] = IF Matches(k.wait_for, rec) THEN "ret" ELSE "poll"]
    /\ UNCHANGED <<args, proc, reg_names, world, op, step, loc, last, nwritten, ntimeouts, others>>

CmdTimeout_Empty(c) ==
    /\ pc[c] = "poll"
    /\ call' = [call EXCEPT ![c] = [call[c] EXCEPT !.ret = EmptyRec, !.how = "timeout"]]
    /\ pc' = [pc EXCEPT ![c] = "ret"]
    /\ ntimeouts < budget.timeouts
    /\ ntimeouts' = ntimeouts + 1
    /\ UNCHANGED <<session, world, op, step, loc, last, nwritten, others>>

CmdTimeout_BlockingGet(c) ==
    /\ pc[c] = "poll"
    /\ q # <<>>
    /\ call' = [call EXCEPT ![c] = [call[c] EXCEPT !.ret = call[c].last_result, !.how = "timeout"]]
    /\ pc' = [pc EXCEPT ![c] = "ret"]
    /\ ntimeouts < budget.timeouts
    /\ ntimeouts' = ntimeouts + 1
    /\ UNCHANGED <<session, world, op, step, loc, last, nwritten, others>>

\* The deadline of cmd has passed at the head of its loop.
CmdTimeout(c) ==
    /\ pc[c] = "poll"
    /\ call' = [call EXCEPT ![c] = [call[c] EXCEPT !.ret = call[c].last_result,
                                                   !.how = "timeout"]]
    /\ pc' = [pc EXCEPT ![c] = "ret"]
    /\ ntimeouts < budget.timeouts
    /\ ntimeouts' = ntimeouts + 1
    /\ UNCHANGED <<session, world, op, step, loc, last, nwritten, others>>

\* ------------------------------------------------------------ start, stop
start(c) ==
    /\ pc[c] = "idle"
    /\ UNCHANGED <<ntimeouts, budget, split>>
    /\ IF proc # NoProc
       THEN /\ Return(c, "start", "ok", EmptyRec, <<>>)
            /\ UNCHANGED <<session, world, call, loc, nwritten, table>>
       ELSE /\ nwritten < budget.cmds
            /\ table' = NoBreakpoints
            /\ nprocs < MaxGens
            /\ nprocs' = nprocs + 1
            /\ proc' = nprocs + 1
            /\ alive' = alive \cup {nprocs + 1}
            /\ readers' = readers \cup {nprocs + 1}
            /\ stdout' = [stdout EXCEPT ![nprocs + 1] = Banner]
            /\ inferior' = FALSE
            /\ LET k == cmd("-gdb-set", "done", nprocs + 1, TRUE)
               IN /\ call' = [call EXCEPT ![c] = k]
                  /\ nwritten' = nwritten + 1
                  /\ stdin' = <<[text |-> k.text, id |-> k.serial]>>
                  /\ loc' = [loc EXCEPT ![c] = [NoLoc EXCEPT !.sent = <<k.text>>]]
            /\ pc' = [pc EXCEPT ![c] = "poll"]
            /\ op' = [op EXCEPT ![c] = "start"]
            /\ step' = [step EXCEPT ![c] = 1]
            /\ last' = [last EXCEPT ![c] = NoLast]
            /\ UNCHANGED <<args, q, reg_names, last_stop, running, fresh>>

\* [n if isinstance(n, str) else "" for n in names]
StrOrEmpty(names) == [i \in 1..Len(names) |-> names[i]]

startNext(c) ==
    /\ pc[c] = "ret"
    /\ op[c] = "start"
    /\ IF step[c] = 4
       THEN /\ reg_names' = StrOrEmpty(PGet(call[c].ret, "register-names", <<>>))
            /\ Leave(c, "start", EmptyRec, loc[c].sent)
            /\ UNCHANGED <<args, proc, q, last_stop, running, world, nwritten, ntimeouts, others>>
       ELSE /\ LET s == IF step[c] = 1 THEN 2
                        ELSE IF step[c] = 2 /\ args # <<>> THEN 3 ELSE 4
                   text == CASE s = 2 -> "-file-exec-and-symbols"
                             [] s = 3 -> "-exec-arguments"
                             [] s = 4 -> "-data-list-register-names"
               IN Enter(c, "start", s, cmd(text, "done", proc, Up(proc)), loc[c])
            /\ UNCHANGED <<session, nprocs, alive, readers, stdout, inferior, fresh, ntimeouts,
                           others>>

stop_NoTry(c) ==
    /\ pc[c] = "idle"
    /\ UNCHANGED <<ntimeouts, others>>
    /\ IF proc = NoProc
       THEN /\ Return(c, "stop", "ok", EmptyRec, <<>>)
            /\ UNCHANGED <<session, world, nwritten>>
       ELSE LET k == cmd("-gdb-exit", NoWait, proc, Up(proc))
            IN IF Wrote(k)
               THEN /\ nwritten < budget.cmds
                    /\ nwritten' = nwritten + 1
                    /\ Return(c, "stop", "ok", EmptyRec, <<k.text, "kill">>)
                    /\ alive' = alive \ {proc}
                    /\ stdin' = <<>>
                    /\ inferior' = FALSE
                    /\ proc' = NoProc
                    /\ UNCHANGED <<args, q, reg_names, last_stop, running, nprocs, readers,
                                   stdout, fresh>>
               ELSE /\ Return(c, "stop", k.how, EmptyRec, <<>>)
                    /\ UNCHANGED <<session, world, nwritten>>
    /\ UNCHANGED <<call, loc>>

stop_ClearsNames(c) ==
    /\ pc[c] = "idle"
    /\ UNCHANGED <<ntimeouts, others>>
    /\ reg_names' = <<>>
    /\ IF proc = NoProc
       THEN /\ Return(c, "stop", "ok", EmptyRec, <<>>)
            /\ UNCHANGED <<args, proc, q, last_stop, running, world, nwritten>>
       ELSE /\ LET k == cmd("-gdb-exit", NoWait, proc, Up(proc))
               IN /\ Wrote(k) => nwritten < budget.cmds
                  /\ nwritten' = IF Wrote(k) THEN nwritten + 1 ELSE nwritten
                  /\ Return(c, "stop", "ok", EmptyRec,
                            IF Wrote(k) THEN <<k.text, "kill">> ELSE <<"kill">>)
            /\ alive' = alive \ {proc}
            /\ stdin' = <<>>
            /\ inferior' = FALSE
            /\ proc' = NoProc
            /\ UNCHANGED <<args, q, last_stop, running, nprocs, readers, stdout, fresh>>
    /\ UNCHANGED <<call, loc>>

stop_ClearsState(c) ==
    /\ pc[c] = "idle"
    /\ UNCHANGED <<ntimeouts, others>>
    /\ running' = FALSE
    /\ IF proc = NoProc
       THEN /\ Return(c, "stop", "ok", EmptyRec, <<>>)
            /\ UNCHANGED <<args, proc, q, reg_names, last_stop, world, nwritten>>
       ELSE /\ LET k == cmd("-gdb-exit", NoWait, proc, Up(proc))
               IN /\ Wrote(k) => nwritten < budget.cmds
                  /\ nwritten' = IF Wrote(k) THEN nwritten + 1 ELSE nwritten
                  /\ Return(c, "stop", "ok", EmptyRec,
                            IF Wrote(k) THEN <<k.text, "kill">> ELSE <<"kill">>)
            /\ alive' = alive \ {proc}
            /\ stdin' = <<>>
            /\ inferior' = FALSE
            /\ proc' = NoProc
            /\ UNCHANGED <<args, q, reg_names, last_stop, nprocs, readers, stdout, fresh>>
    /\ UNCHANGED <<call, loc>>

stop(c) ==
    /\ pc[c] = "idle"
    /\ UNCHANGED <<ntimeouts, others>>
    /\ IF proc = NoProc
       THEN /\ Return(c, "stop", "ok", EmptyRec, <<>>)
            /\ UNCHANGED <<session, world, nwritten>>
       ELSE /\ LET k == cmd("-gdb-exit", NoWait, proc, Up(proc))
               IN /\ Wrote(k) => nwritten < budget.cmds
                  /\ nwritten' = IF Wrote(k) THEN nwritten + 1 ELSE nwritten
                  /\ Return(c, "stop", "ok", EmptyRec,
                            IF Wrote(k) THEN <<k.text, "kill">> ELSE <<"kill">>)
            /\ alive' = alive \ {proc}
            /\ stdin' = <<>>
            /\ inferior' = FALSE
            /\ proc' = NoProc
            /\ UNCHANGED <<args, q, reg_names, last_stop, running, nprocs, readers,
                           stdout, fresh>>
    /\ UNCHANGED <<call, loc>>

\* ------------------------------------------------------------ cmd, called directly
WaitClasses == {"done", "any", NoWait}

cmdOp(c, w) ==
    /\ pc[c] = "idle"
    /\ UNCHANGED <<ntimeouts, others>>
    /\ Enter(c, "cmd", 1, cmd("-list-features", w, proc, Up(proc)), NoLoc)
    /\ UNCHANGED <<session, nprocs, alive, readers, stdout, inferior, fresh>>

cmdNext(c) ==
    /\ pc[c] = "ret"
    /\ op[c] = "cmd"
    /\ Leave(c, "cmd", call[c].ret, call[c].ret)
    /\ UNCHANGED <<session, world, nwritten, ntimeouts, others>>

\* ------------------------------------------------------------ run, cont, ...
contOp(c, o) ==
    /\ pc[c] = "idle"
    /\ UNCHANGED <<ntimeouts, others>>
    /\ running' = TRUE
    /\ Enter(c, o, 1, cmd(ExecCmd(o), "running", proc, Up(proc)), NoLoc)
    \* history: gdb has written no stopped record, and none was queued, since
    \* this command line
    /\ fresh' = IF proc # NoProc /\ Up(proc) THEN FALSE ELSE fresh
    /\ UNCHANGED <<args, proc, q, reg_names, last_stop, nprocs, alive, readers, stdout,
                   inferior>>

contNext(c) ==
    /\ pc[c] = "ret"
    /\ op[c] \in ContOps
    /\ pc' = [pc EXCEPT ![c] = "wfs"]
    /\ UNCHANGED <<session, world, op, step, call, loc, last, nwritten, ntimeouts, others>>

_wait_for_stop_KeepStop(c) ==
    /\ pc[c] = "wfs"
    /\ q # <<>>
    /\ LET rec == Get(q)
       IN /\ q' = Tail(q)
          /\ IF IsStop(rec)
             THEN /\ running' = FALSE
                  /\ Leave(c, op[c], call[c].ret, <<>>)
                  /\ UNCHANGED last_stop
             ELSE UNCHANGED <<last_stop, running, callers>>
    /\ UNCHANGED <<args, proc, reg_names, world, nwritten, ntimeouts, others>>

\* One iteration of _wait_for_stop's loop that gets a record.
_wait_for_stop(c) ==
    /\ pc[c] = "wfs"
    /\ q # <<>>
    /\ LET rec == Get(q)
       IN /\ q' = Tail(q)
          /\ IF IsStop(rec)
             THEN /\ last_stop' = rec.payload
                  /\ running' = FALSE
                  /\ Leave(c, op[c], call[c].ret, <<>>)
             ELSE UNCHANGED <<last_stop, running, callers>>
    /\ UNCHANGED <<args, proc, reg_names, world, nwritten, ntimeouts, others>>

WaitTimeout_Stops(c) ==
    /\ pc[c] = "wfs"
    /\ running' = FALSE
    /\ Leave(c, op[c], call[c].ret, <<>>)
    /\ UNCHANGED <<args, proc, q, reg_names, last_stop, world, nwritten, ntimeouts, others>>

\* The deadline of _wait_for_stop has passed at the head of its loop.
WaitTimeout(c) ==
    /\ pc[c] = "wfs"
    /\ Leave(c, op[c], call[c].ret, <<>>)
    /\ UNCHANGED <<session, world, nwritten, ntimeouts, others>>

\* ------------------------------------------------------------ snapshot
\* int(rv.get("number", "-1")) of the decimal strings gdb sends.
Int10(str) == CASE str = "0" -> 0 [] str = "1" -> 1 [] str = "2" -> 2 [] str = "-1" -> 0 - 1

\* self.reg_names[num] if 0 <= num < len(self.reg_names) else f"r{num}"
RegName(names, num) ==
    IF 0 <= num /\ num < Len(names) THEN names[num + 1] ELSE "r" \o ToString(num)

\* The register map after the loop over regvals: a later entry of a name
\* replaces an earlier one, an entry whose name is empty is left out.
RECURSIVE Regmap(_, _)
Regmap(regvals, names) ==
    IF regvals = <<>> THEN [n \in {} |-> ""]
    ELSE LET rv == regvals[Len(regvals)]
             rest == Regmap(SubSeq(regvals, 1, Len(regvals) - 1), names)
             name == RegName(names, Int10(rv.number))
         IN IF name # ""
            THEN [n \in DOMAIN rest \cup {name} |-> IF n = name THEN rv.value ELSE rest[n]]
            ELSE rest

HasRsp_KeyOnly(regmap) == "rsp" \in DOMAIN regmap

\* rsp = regmap.get("rsp"); if rsp:
HasRsp(regmap) == "rsp" \in DOMAIN regmap /\ regmap["rsp"] # ""

\* The words of the stack view: one per 8 bytes of at most 256, each with its
\* offset from the base address.
StackView(mm) ==
    IF mm # <<>>
    THEN LET len == IF mm[1].contents < 256 THEN mm[1].contents ELSE 256
         IN [i \in 1..((len + 7) \div 8) |-> [addr |-> 8 * (i - 1)]]
    ELSE <<>>

\* list_breakpoints after its cmd: the bkpt of every row that has one.
RECURSIVE Bkpts(_)
Bkpts(body) ==
    IF body = <<>> THEN <<>>
    ELSE LET row == Head(body)
         IN (IF "bkpt" \in DOMAIN row THEN <<row.bkpt>> ELSE <<>>) \o Bkpts(Tail(body))

list_breakpoints(res) == Bkpts(PGet(res, "BreakpointTable", [body |-> <<>>]).body)

\* gdb's answer to the command of frame k, if it is, or was, in the queue.
RECURSIVE Answer(_, _)
Answer(records, id) ==
    IF records = <<>> THEN EmptyRec
    ELSE IF Head(records).kind = "result" /\ Head(records).id = id THEN Head(records)
    ELSE Answer(Tail(records), id)

Own(k) == Answer(k.seen \o q, k.serial)

snapshot(c) ==
    /\ pc[c] = "idle"
    /\ UNCHANGED <<ntimeouts, others>>
    /\ Enter(c, "snapshot", 1, cmd("-data-list-register-values", "done", proc, Up(proc)), NoLoc)
    /\ UNCHANGED <<session, nprocs, alive, readers, stdout, inferior, fresh>>

\* snapshot after the cmd of its step returned: up to its next cmd, or to its end.
snapshotNext(c) ==
    /\ pc[c] = "ret"
    /\ op[c] = "snapshot"
    /\ LET res == call[c].ret
           l == [loc[c] EXCEPT !.own = Append(@, Own(call[c]))]
       IN \/ /\ step[c] = 1
             /\ Enter(c, "snapshot", 2, cmd("-stack-list-frames", "done", proc, Up(proc)),
                      [l EXCEPT !.regmap = Regmap(PGet(res, "register-values", <<>>), reg_names)])
          \/ /\ step[c] = 2
             /\ Enter(c, "snapshot", 3, cmd("-data-disassemble", "done", proc, Up(proc)),
                      [l EXCEPT !.frames = PGet(res, "stack", <<>>)])
          \/ /\ step[c] = 3
             /\ IF HasRsp(l.regmap)
                THEN Enter(c, "snapshot", 4,
                           cmd("-data-read-memory-bytes", "done", proc, Up(proc)),
                           [l EXCEPT !.asm = PGet(res, "asm_insns", <<>>)])
                ELSE Enter(c, "snapshot", 5, cmd("-break-list", "done", proc, Up(proc)),
                           [l EXCEPT !.asm = PGet(res, "asm_insns", <<>>)])
          \/ /\ step[c] = 4
             /\ Enter(c, "snapshot", 5, cmd("-break-list", "done", proc, Up(proc)),
                      [l EXCEPT !.stack_view = StackView(PGet(res, "memory", <<>>))])
    /\ UNCHANGED <<session, nprocs, alive, readers, stdout, inferior, fresh, ntimeouts, others>>

snapshotReturn(c) ==
    /\ pc[c] = "ret"
    /\ op[c] = "snapshot"
    /\ step[c] = 5
    /\ Leave(c, "snapshot", EmptyRec,
             [status |-> IF running THEN "running" ELSE "stopped",
              stop |-> last_stop,
              registers |-> loc[c].regmap,
              frames |-> loc[c].frames,
              disasm |-> loc[c].asm,
              stack |-> loc[c].stack_view,
              breakpoints |-> list_breakpoints(call[c].ret),
              sent |-> loc[c].sent,
              own |-> Append(loc[c].own, Own(call[c]))])
    /\ UNCHANGED <<session, world, nwritten, ntimeouts, others>>

\* ------------------------------------------------------------ breakpoints
\* break_insert(spec), the later of its two definitions, without a condition.
break_insert(c, spec) ==
    /\ pc[c] = "idle"
    /\ table.next <= MaxBreakpoints
    /\ UNCHANGED <<ntimeouts, others>>
    /\ Enter(c, "break_insert", 1, cmd("-break-insert " \o spec, "done", proc, Up(proc)), NoLoc)
    /\ UNCHANGED <<session, nprocs, alive, readers, stdout, inferior, fresh>>

break_insertNext(c) ==
    /\ pc[c] = "ret"
    /\ op[c] = "break_insert"
    /\ Leave(c, "break_insert", call[c].ret, <<>>)
    /\ UNCHANGED <<session, world, nwritten, ntimeouts, others>>

\* The addresses a request may carry: the address of main without 0x and in
\* upper case, as hex() writes it, and with 0X and leading zeros; another
\* address; and one that is no number.
Spellings == {<<"4", "0", "1", "A", "0", "0">>,
              <<"0", "x", "4", "0", "1", "a", "0", "0">>,
              <<"0", "X", "0", "0", "4", "0", "1", "a", "0", "0">>,
              <<"0", "x", "4", "0", "1", "a", "0", "4">>,
              <<"0", "x">>}

\* The loop, had it compared addr with the text of hex(want).
api_break_toggle_loop_Textual(bps, want, i) ==
    LET same == {j \in i..Len(bps) : /\ "addr" \in DOMAIN bps[j]
                                      /\ bps[j].addr = <<"0", "x">> \o LowerDigits(want)}
    IN IF same = {} THEN 0 ELSE CHOOSE j \in same : \A k \in same : j <= k

\* The loop over bps: the first one whose addr is there, is a number and is
\* want, or 0 if the loop ends.
RECURSIVE api_break_toggle_loop(_, _, _)
api_break_toggle_loop(bps, want, i) ==
    IF i > Len(bps) THEN 0
    ELSE IF "addr" \notin DOMAIN bps[i] \/ bps[i].addr = <<>>
    THEN api_break_toggle_loop(bps, want, i + 1)
    ELSE IF Int16(bps[i].addr) = ValueError
    THEN api_break_toggle_loop(bps, want, i + 1)
    ELSE IF Int16(bps[i].addr) = want THEN i
    ELSE api_break_toggle_loop(bps, want, i + 1)

\* api_break_toggle up to its list_breakpoints: without a session, without
\* addr or with one that is no number the request is rejected.
api_break_toggle(c, addr) ==
    /\ pc[c] = "idle"
    /\ UNCHANGED <<ntimeouts, others>>
    /\ UNCHANGED <<session, nprocs, alive, readers, stdout, inferior, fresh>>
    /\ IF proc = NoProc \/ addr = <<>> \/ Int16(addr) = ValueError
       THEN /\ Return(c, "api_break_toggle", "rejected", EmptyRec, <<>>)
            /\ UNCHANGED <<stdin, call, loc, nwritten>>
       ELSE Enter(c, "api_break_toggle", 1, cmd("-break-list", "done", proc, Up(proc)),
                  [NoLoc EXCEPT !.addr = addr, !.want = Int16(addr),
                                !.before = [quiet |-> stdin = <<>>, rows |-> table.rows]])

\* api_break_toggle after list_breakpoints returned: break_delete or
\* break_insert; after that one returned: the snapshot of the response.
api_break_toggleNext(c) ==
    /\ pc[c] = "ret"
    /\ op[c] = "api_break_toggle"
    /\ \/ /\ step[c] = 1
          /\ LET bps == list_breakpoints(call[c].ret)
                 i == api_break_toggle_loop(bps, loc[c].want, 1)
             IN Enter(c, "api_break_toggle", 2,
                      cmd(IF i # 0 THEN "-break-delete " \o bps[i].number
                          ELSE "-break-insert *" \o Hex(loc[c].want),
                          "done", proc, Up(proc)),
                      [loc[c] EXCEPT !.bps = bps])
       \/ /\ step[c] = 2
          /\ Enter(c, "snapshot", 1,
                   cmd("-data-list-register-values", "done", proc, Up(proc)), NoLoc)
    /\ UNCHANGED <<session, nprocs, alive, readers, stdout, inferior, fresh, ntimeouts, others>>

\* ------------------------------------------------------------ gdb, readers
\* gdb answers the oldest command it has not answered.
GdbReply ==
    /\ stdin # <<>>
    /\ nprocs \in alive
    /\ \E answer \in GdbAnswers(Head(stdin).text, Head(stdin).id) :
          /\ stdout' = [stdout EXCEPT ![nprocs] =
                           IF answer.line.cls = "running"
                           THEN @ \o <<answer.line, RunningLine>>
                           ELSE Append(@, answer.line)]
          /\ inferior' = IF answer.line.cls = "running" THEN TRUE ELSE inferior
          /\ table' = answer.table
    /\ stdin' = Tail(stdin)
    /\ UNCHANGED <<session, callers, nwritten, ntimeouts, budget, split>>
    /\ UNCHANGED <<nprocs, alive, readers, fresh>>

\* The program being debugged stops.
GdbStop ==
    /\ nprocs \in alive
    /\ inferior
    /\ \E p \in StopPayloads :
          stdout' = [stdout EXCEPT ![nprocs] = @ \o <<ConsoleLine, Line("*", "stopped", p, 0)>>]
    /\ inferior' = FALSE
    /\ fresh' = TRUE
    /\ UNCHANGED <<session, callers, history, nprocs, alive, readers, stdin>>

\* gdb exits on its own.
GdbExit ==
    /\ nprocs \in alive
    /\ alive' = alive \ {nprocs}
    /\ stdin' = <<>>
    /\ inferior' = FALSE
    /\ UNCHANGED <<session, callers, history, nprocs, readers, stdout, fresh>>

\* _reader_loop of the reader thread started for process g: one line, or the
\* end of the stream.
_reader_loop(g) ==
    /\ g \in readers
    /\ IF stdout[g] # <<>>
       THEN /\ stdout' = [stdout EXCEPT ![g] = Tail(@)]
            /\ LET rec == parse_mi_line(Head(stdout[g]))
               IN /\ q' = IF rec # NoRec THEN Append(q, rec) ELSE q
                  /\ fresh' = (fresh \/ IsStop(rec))
            /\ UNCHANGED readers
       ELSE /\ g \notin alive
            /\ readers' = readers \ {g}
            /\ UNCHANGED <<stdout, q, fresh>>
    /\ UNCHANGED <<args, proc, reg_names, last_stop, running, callers, history,
                   nprocs, alive, stdin, inferior>>

\* ------------------------------------------------------------ _split_top
\* The characters of the fragments split: the separator, the quote, the
\* backslash, an opening and a closing bracket, a space and a letter.
Chars == {",", "\"", "\\", "[", "}", " ", "a"}

RECURSIVE Fragments(_)
Fragments(n) ==
    IF n = 0 THEN {<<>>}
    ELSE LET shorter == Fragments(n - 1)
         IN shorter \cup {Append(f, ch) : f \in {g \in shorter : Len(g) = n - 1}, ch \in Chars}

\* "".join(buf).strip()
RECURSIVE Strip(_)
Strip(buf) ==
    IF buf = <<>> THEN <<>>
    ELSE IF Head(buf) = " " THEN Strip(Tail(buf))
    ELSE IF buf[Len(buf)] = " " THEN Strip(SubSeq(buf, 1, Len(buf) - 1))
    ELSE buf

_split_top_body_NoEsc(st, sep) ==
    LET ch == st.s[st.i]
        next == [st EXCEPT !.i = @ + 1]
    IN IF st.in_str
       THEN [next EXCEPT !.buf = Append(@, ch),
                         !.in_str = IF ch = "\"" THEN FALSE ELSE @]
       ELSE IF ch = "\""
       THEN [next EXCEPT !.buf = Append(@, ch), !.in_str = TRUE]
       ELSE LET depth == IF ch \in {"{", "["} THEN st.depth + 1
                         ELSE IF ch \in {"}", "]"} THEN st.depth - 1
                         ELSE st.depth
            IN IF ch = sep /\ depth = 0
               THEN [next EXCEPT !.depth = depth, !.out = Append(@, Strip(st.buf)), !.buf = <<>>]
               ELSE [next EXCEPT !.depth = depth, !.buf = Append(@, ch)]

\* The body of the loop `for ch in s` of _split_top, on the character at st.i.
_split_top_body(st, sep) ==
    LET ch == st.s[st.i]
        next == [st EXCEPT !.i = @ + 1]
    IN IF st.in_str
       THEN [next EXCEPT !.buf = Append(@, ch),
                         !.esc = IF st.esc THEN FALSE ELSE ch = "\\",
                         !.in_str = IF ~st.esc /\ ch # "\\" /\ ch = "\"" THEN FALSE ELSE @]
       ELSE IF ch = "\""
       THEN [next EXCEPT !.buf = Append(@, ch), !.in_str = TRUE]
       ELSE LET depth == IF ch \in {"{", "["} THEN st.depth + 1
                         ELSE IF ch \in {"}", "]"} THEN st.depth - 1
                         ELSE st.depth
            IN IF ch = sep /\ depth = 0
               THEN [next EXCEPT !.depth = depth, !.out = Append(@, Strip(st.buf)), !.buf = <<>>]
               ELSE [next EXCEPT !.depth = depth, !.buf = Append(@, ch)]

\* One iteration of the loop of _split_top(s, ",").
_split_top ==
    /\ split.at = "loop"
    /\ split.i <= Len(split.s)
    /\ split' = _split_top_body(split, ",")
    /\ UNCHANGED <<session, world, callers, nwritten, ntimeouts, budget, table>>

\* After the loop: the tail, and return out.
_split_top_return ==
    /\ split.at = "loop"
    /\ split.i > Len(split.s)
    /\ LET tail == Strip(split.buf)
       IN split' = [split EXCEPT !.at = "done",
                                 !.out = IF tail # <<>> THEN Append(@, tail) ELSE @]
    /\ UNCHANGED <<session, world, callers, nwritten, ntimeouts, budget, table>>

\* _split_top called on any fragment of at most MaxLen characters.
InitSplit ==
    /\ InitSession([cmds |-> 0, timeouts |-> 0])
    /\ args = <<>>
    /\ \E s \in Fragments(MaxLen) : split = [NoSplit EXCEPT !.at = "loop", !.s = s, !.i = 1]

NextSplit == _split_top \/ _split_top_return

SpecSplit == InitSplit /\ [][NextSplit]_vars

\* ------------------------------------------------------------ specification
Operation(c) ==
    \/ start(c)
    \/ startNext(c)
    \/ stop(c)
    \/ \E w \in WaitClasses : cmdOp(c, w)
    \/ cmdNext(c)
    \/ \E o \in ContOps : contOp(c, o)
    \/ contNext(c)
    \/ _wait_for_stop(c)
    \/ WaitTimeout(c)
    \/ CmdPoll(c)
    \/ CmdTimeout(c)

World ==
    \/ GdbReply
    \/ GdbStop
    \/ \E g \in 1..MaxGens : _reader_loop(g)

\* One caller at a time uses the session.
Next == Operation(1) \/ World

Spec == Init /\ [][Next]_vars

\* The session of one caller that starts it and takes snapshots.
SnapOperation(c) ==
    \/ start(c)
    \/ startNext(c)
    \/ snapshot(c)
    \/ snapshotNext(c)
    \/ snapshotReturn(c)
    \/ CmdPoll(c)
    \/ CmdTimeout(c)

NextSnap == SnapOperation(1) \/ GdbReply \/ \E g \in 1..MaxGens : _reader_loop(g)

InitSnap == InitWith([cmds |-> MaxSnapCmds, timeouts |-> MaxSnapTimeouts])

SpecSnap == InitSnap /\ [][NextSnap]_vars

\* Two callers use the session at once, as two requests of the threaded front
\* end do.
NextConc == Operation(1) \/ Operation(2) \/ World

InitConc == InitWith([cmds |-> MaxConcCmds, timeouts |-> MaxConcTimeouts])

SpecConc == InitConc /\ [][NextConc]_vars

\* Sessions that are started and stopped, over a gdb that may exit on its own
\* at any time.
DownOperation(c) ==
    \/ start(c)
    \/ startNext(c)
    \/ stop(c)
    \/ CmdPoll(c)
    \/ CmdTimeout(c)

NextDown ==
    \/ DownOperation(1)
    \/ GdbReply
    \/ GdbExit
    \/ \E g \in 1..MaxGens : _reader_loop(g)

InitDown == InitWith([cmds |-> MaxDownCmds, timeouts |-> MaxDownTimeouts])

SpecDown == InitDown /\ [][NextDown]_vars

\* The clock is fair: a deadline that stays ahead of a waiting loop passes, and
\* the caller's thread runs on after a call returns. gdb owes nothing. Every
\* call that waits may run into its deadline: the budget of deadlines is that
\* of command lines.
Continue(c) == startNext(c) \/ contNext(c)

LiveOperation(c) ==
    \/ start(c)
    \/ startNext(c)
    \/ \E o \in ContOps : contOp(c, o)
    \/ contNext(c)
    \/ _wait_for_stop(c)
    \/ WaitTimeout(c)
    \/ CmdPoll(c)
    \/ CmdTimeout(c)

NextLive == LiveOperation(1) \/ World

InitLive == InitWith([cmds |-> MaxLiveCmds, timeouts |-> MaxLiveCmds])

SpecLive ==
    /\ InitLive
    /\ [][NextLive]_vars
    /\ WF_vars(CmdTimeout(1))
    /\ WF_vars(WaitTimeout(1))
    /\ WF_vars(Continue(1))

\* The requests about breakpoints: a session, breakpoints at functions, toggles.
ToggleOperation(c) ==
    \/ start(c)
    \/ startNext(c)
    \/ \E spec \in {"main", "f"} : break_insert(c, spec)
    \/ break_insertNext(c)
    \/ \E addr \in Spellings : api_break_toggle(c, addr)
    \/ api_break_toggleNext(c)
    \/ snapshotNext(c)
    \/ snapshotReturn(c)
    \/ CmdPoll(c)
    \/ CmdTimeout(c)

NextToggle ==
    \/ ToggleOperation(1)
    \/ GdbReply
    \/ \E g \in 1..MaxGens : _reader_loop(g)

InitToggle ==
    /\ InitWith([cmds |-> MaxToggleCmds, timeouts |-> MaxToggleTimeouts])
    /\ args = <<>>

SpecToggle == InitToggle /\ [][NextToggle]_vars

\* ------------------------------------------------------------ the claims
Last(seq) == seq[Len(seq)]
Range(seq) == {seq[i] : i \in 1..Len(seq)}

\* A step that is not gdb's or a reader's (each of those changes a pipe or the
\* set of readers).
CallerStep == UNCHANGED <<stdout, readers>>

\* A step that takes a record off the queue.
Dequeues == Len(q') < Len(q)

\* C1: a call of cmd that waits for class c returns the first Result record of
\* class c (of any class for "any") among the records it dequeued, in the order
\* of the queue, after its command line was written; it returns at that record,
\* dequeues nothing after it, and no earlier Result record it dequeued matched.
C1_ReturnsFirstMatch ==
    /\ [](\A c \in Callers : pc[c] = "ret" /\ call[c].how = "match" =>
            LET k == call[c]
            IN /\ k.serial \in 1..nwritten
               /\ k.seen # <<>>
               /\ k.ret = Last(k.seen)
               /\ k.ret.kind = "result"
               /\ (k.wait_for = "any" \/ k.ret.cls = k.wait_for)
               /\ \A i \in 1..(Len(k.seen) - 1) :
                     k.wait_for # "any" /\ k.seen[i].cls # k.wait_for)
    /\ [][/\ Dequeues /\ pc[1] = "poll" =>
                /\ q' = Tail(q)
                /\ call'[1].seen = IF Head(q).kind = "result"
                                   THEN Append(call[1].seen, Head(q))
                                   ELSE call[1].seen
          /\ pc[1] = "ret" => ~Dequeues]_vars

C1_Witness ==
    /\ pc[1] = "ret"
    /\ call[1].how = "match"
    /\ call[1].wait_for = "running"
    /\ Len(call[1].seen) >= 2

\* C2: when the deadline of cmd passes, the call returns (it does not raise) the
\* last Result record it dequeued, or {} if it dequeued none, and leaves the
\* session as it was, the process handle still held: a call made after a
\* deadline has passed is accepted, written, and returns by the same rule, at
\* the first Result record of its class that it dequeues.
C2_TimeoutReturnsLastSeen ==
    /\ [](\A c \in Callers : pc[c] = "ret" /\ call[c].how = "timeout" =>
            LET k == call[c]
            IN /\ k.ret = IF k.seen = <<>> THEN EmptyRec ELSE Last(k.seen)
               /\ \A i \in 1..Len(k.seen) : k.seen[i].cls # k.wait_for
               /\ proc = k.procAt
               /\ proc # NoProc)
    /\ [][ntimeouts' # ntimeouts =>
             /\ pc[1] = "poll" /\ pc'[1] = "ret"
             /\ UNCHANGED <<session, world, nwritten, op, step, last>>]_vars
    /\ [](ntimeouts > 0 => \A c \in Callers : pc[c] \in {"poll", "ret"} =>
            LET k == call[c]
            IN /\ k.how # "raise"
               /\ k.serial \in 1..nwritten
               /\ k.how = "match" =>
                     /\ k.ret = Last(k.seen)
                     /\ k.ret.kind = "result"
                     /\ (k.wait_for = "any" \/ k.ret.cls = k.wait_for))

C2_Witness ==
    /\ ntimeouts > 0
    /\ pc[1] = "ret"
    /\ call[1].how = "match"
    /\ call[1].ret.id = call[1].serial

\* C3: a record is dequeued only inside a wait (the loop of cmd or of
\* _wait_for_stop); when it is an Async record of class stopped, last_stop is
\* its payload and running is false right after, and when it is anything else
\* last_stop and running are as before.
C3_StopsAbsorbed ==
    [][Dequeues =>
         /\ pc[1] \in {"poll", "wfs"}
         /\ q' = Tail(q)
         /\ IF Head(q).kind = "async" /\ Head(q).cls = "stopped"
            THEN last_stop' = Head(q).payload /\ running' = FALSE
            ELSE UNCHANGED <<last_stop, running>>]_vars

C3_Witness ==
    /\ pc[1] = "idle"
    /\ last[1].op \in ContOps
    /\ last_stop \in StopPayloads
    /\ ~running

\* C4 (as claimed): a continuation operation during which gdb produced no
\* stopped record and none reached the queue, from the write of its command on,
\* returns with running true, whatever the queue held before.
C4_RunningWithoutStop ==
    \A c \in Callers :
        pc[c] = "idle" /\ last[c].op \in ContOps /\ last[c].outcome = "ok" /\ ~fresh
            => running

\* C5 (as claimed): a continuation operation whose command was not answered by
\* a Result of class running returns with the session not Running.
C5_RunningOnlyAfterAck ==
    \A c \in Callers :
        pc[c] = "idle" /\ last[c].op \in ContOps /\ last[c].outcome = "ok"
            /\ last[c].ack.cls # "running"
            => ~running

\* C6 (as claimed): with two callers, at most one correlation is outstanding:
\* no command is written while a call of cmd is in its polling loop.
C6_OneCorrelation ==
    /\ [](Cardinality({c \in Callers : pc[c] = "poll"}) <= 1)
    /\ [][nwritten' # nwritten => \A c \in Callers : pc[c] # "poll"]_vars

\* C7: stop on a session without a process changes nothing: no command is
\* written, no process killed, and proc, the queue, reg_names, last_stop and
\* running are as before.
C7_StopIdempotent ==
    [][/\ proc = NoProc
       /\ CallerStep
       /\ pc[1] = "idle" /\ pc'[1] = "idle"
       /\ last'[1].op = "stop"
       => UNCHANGED <<proc, q, reg_names, last_stop, running, nwritten, alive, stdin>>]_vars

C7_Witness ==
    /\ pc[1] = "idle"
    /\ last[1].op = "stop"
    /\ last[1].val = <<>>
    /\ nprocs > 0
    /\ proc = NoProc

\* C8: cmd on a session without a process raises at once: no frame of cmd gets
\* past the check without a process, and the step that calls it writes nothing,
\* dequeues nothing, enters no wait and ends the operation with the error.
C8_NoProcessRaises ==
    /\ [](\A c \in Callers :
            call[c].how \in {"wait", "nowait", "match", "timeout"} => call[c].procAt # NoProc)
    /\ [][/\ proc = NoProc /\ proc' = NoProc
          /\ CallerStep
          => /\ nwritten' = nwritten
             /\ q' = q
             /\ pc'[1] = "idle"
             /\ (last'[1] # last[1] /\ last'[1].op \in ContOps \cup {"cmd"}
                    => last'[1].outcome = "raise")]_vars

C8_Witness ==
    /\ pc[1] = "idle"
    /\ last[1].op = "cmd"
    /\ last[1].outcome = "raise"

MemSent(sent) == "-data-read-memory-bytes" \in Range(sent)

\* C9: snapshot writes the memory-read command exactly when the register map
\* it built holds rsp with a non-empty value; without it, the stack section of
\* the snapshot is empty.
C9_MemoryReadIffRsp ==
    /\ \A c \in Callers : op[c] = "snapshot" /\ MemSent(loc[c].sent) =>
          "rsp" \in DOMAIN loc[c].regmap /\ loc[c].regmap["rsp"] # ""
    /\ \A c \in Callers : pc[c] = "idle" /\ last[c].op = "snapshot" /\ last[c].outcome = "ok" =>
          LET v == last[c].val
              has == "rsp" \in DOMAIN v.registers /\ v.registers["rsp"] # ""
          IN /\ MemSent(v.sent) <=> has
             /\ ~has => v.stack = <<>>

C9_Witness ==
    /\ pc[1] = "idle"
    /\ last[1].op = "snapshot"
    /\ last[1].outcome = "ok"
    /\ MemSent(last[1].val.sent)
    /\ last[1].val.stack # <<>>

\* C10 (as claimed, the memory read taken to be due only when rsp is known): a
\* snapshot writes its commands in the fixed order, and each field is what
\* gdb's answer to that field's own command gives, when the answer was queued
\* by the time the call returned, and empty when it was not or was an error.
C10_FieldsBestEffort ==
    \A c \in Callers : pc[c] = "idle" /\ last[c].op = "snapshot" /\ last[c].outcome = "ok" =>
        LET v == last[c].val
            mem == MemSent(v.sent)
        IN /\ v.sent = <<"-data-list-register-values", "-stack-list-frames", "-data-disassemble">>
                       \o (IF mem THEN <<"-data-read-memory-bytes">> ELSE <<>>)
                       \o <<"-break-list">>
           /\ v.registers = Regmap(PGet(v.own[1], "register-values", <<>>), reg_names)
           /\ v.frames = PGet(v.own[2], "stack", <<>>)
           /\ v.disasm = PGet(v.own[3], "asm_insns", <<>>)
           /\ mem => v.stack = StackView(PGet(v.own[4], "memory", <<>>))
           /\ v.breakpoints = list_breakpoints(v.own[Len(v.own)])

\* C14: running goes from true to false only in a step that dequeues an Async
\* record of class stopped, inside cmd's loop or _wait_for_stop; no timeout, no
\* other record, no other operation clears it.
C14_StoppedOnlyByStopRecord ==
    [][running /\ ~running' =>
          /\ Dequeues
          /\ Head(q).kind = "async" /\ Head(q).cls = "stopped"
          /\ pc[1] \in {"poll", "wfs"}]_vars

C14_Witness ==
    /\ pc[1] = "poll"
    /\ op[1] \in ContOps
    /\ ~running
    /\ last_stop \in StopPayloads

\* C15 (as claimed): at most one reader thread is alive at any time, and a
\* record is put on the queue of a session that has a process only by the
\* reader of that process.
C15_OneReader ==
    /\ [](Cardinality(readers) <= 1)
    /\ [][\A g \in 1..MaxGens :
            Len(q') > Len(q) /\ stdout'[g] # stdout[g] /\ proc # NoProc => g = proc]_vars

\* C18: reg_names changes only in the step of start that takes the answer to
\* -data-list-register-names; every other step of every operation, of gdb and
\* of the readers leaves it as it was.
C18_RegNamesOnlyByStart ==
    [][reg_names' # reg_names =>
          /\ op[1] = "start" /\ step[1] = 4 /\ pc[1] = "ret"
          /\ pc'[1] = "idle" /\ last'[1].op = "start"]_vars

C18_Witness ==
    /\ pc[1] = "idle"
    /\ last[1].op \in ContOps \cup {"stop"}
    /\ reg_names # <<>>
    /\ ntimeouts > 0

\* C19 (as claimed): with one caller, a non-empty Result record that a call of
\* cmd returns is gdb's answer to the command that call wrote.
C19_ResultAttribution ==
    pc[1] = "ret" /\ call[1].ret # EmptyRec => call[1].ret.id = call[1].serial

\* C20 (as claimed): a continuation operation on a session without a process
\* fails with the error and leaves running, last_stop, reg_names and the queue
\* as they were.
C20_ErrorLeavesState ==
    [][/\ proc = NoProc
       /\ CallerStep
       /\ pc[1] = "idle"
       /\ last'[1] # last[1]
       /\ last'[1].op \in ContOps
       => /\ last'[1].outcome = "raise"
          /\ UNCHANGED <<running, last_stop, reg_names, q>>]_vars

\* C16: stop on a session with a process writes -gdb-exit without waiting (no
\* record is dequeued) when the pipe still takes it, kills the process and
\* releases the handle, in one call that returns normally; when the process has
\* already exited the write fails, and the handle is released all the same.
C16_TeardownResilient ==
    /\ [](pc[1] = "idle" /\ last[1].op = "stop" =>
             /\ last[1].outcome = "ok"
             /\ proc = NoProc
             /\ stdin = <<>>)
    /\ [][proc # NoProc /\ proc' = NoProc =>
             /\ pc[1] = "idle" /\ pc'[1] = "idle"
             /\ last'[1].op = "stop"
             /\ q' = q
             /\ proc \notin alive'
             /\ UNCHANGED <<reg_names, last_stop, running, readers, stdout>>
             /\ IF proc \in alive
                THEN nwritten' = nwritten + 1 /\ last'[1].val = <<"-gdb-exit", "kill">>
                ELSE nwritten' = nwritten /\ last'[1].val = <<"kill">>]_vars

C16_Witness ==
    /\ pc[1] = "idle"
    /\ last[1].op = "stop"
    /\ last[1].val = <<"kill">>
    /\ proc = NoProc

\* C17: under a fair clock every call of cmd that waits returns, every
\* _wait_for_stop returns, and so every continuation operation returns to its
\* caller, whether or not gdb ever writes another line.
C17_CallsTerminate ==
    /\ (pc[1] = "poll") ~> (pc[1] = "ret")
    /\ (pc[1] = "wfs") ~> (pc[1] = "idle")
    /\ (op[1] \in ContOps) ~> (pc[1] = "idle")

C17_Witness ==
    /\ pc[1] = "idle"
    /\ last[1].op \in ContOps
    /\ last[1].outcome = "ok"
    /\ last[1].ack = EmptyRec
    /\ stdin # <<>>
    /\ q = <<>>
    /\ ntimeouts > 0

\* The grammar's reading of a fragment, by spans rather than by a scan with
\* flags: a string runs from a quote outside any string to the first later
\* quote that an even number of backslashes precedes, or to the end.
RECURSIVE BackslashRun(_, _, _)
BackslashRun(s, k, lo) ==
    IF k < lo \/ s[k] # "\\" THEN 0 ELSE 1 + BackslashRun(s, k - 1, lo)

Least(S) == CHOOSE k \in S : \A j \in S : k <= j

CloseOf(s, a) ==
    LET closing == {k \in (a + 1)..Len(s) : s[k] = "\"" /\ BackslashRun(s, k - 1, a + 1) % 2 = 0}
    IN IF closing = {} THEN Len(s) + 1 ELSE Least(closing)

RECURSIVE StringSpans(_, _)
StringSpans(s, from) ==
    LET quotes == {k \in from..Len(s) : s[k] = "\""}
    IN IF quotes = {} THEN {}
       ELSE LET a == Least(quotes)
            IN {<<a, CloseOf(s, a)>>} \cup StringSpans(s, CloseOf(s, a) + 1)

InString(s, i) == \E span \in StringSpans(s, 1) : span[1] < i /\ i < span[2]

DepthBefore(s, i) ==
    Cardinality({j \in 1..(i - 1) : s[j] \in {"{", "["} /\ ~InString(s, j)})
    - Cardinality({j \in 1..(i - 1) : s[j] \in {"}", "]"} /\ ~InString(s, j)})

\* The commas the claim says split: outside any string, at bracket depth zero.
Cuts(s) == {i \in 1..Len(s) : s[i] = "," /\ ~InString(s, i) /\ DepthBefore(s, i) = 0}

RECURSIVE PiecesFrom(_, _, _)
PiecesFrom(s, from, cuts) ==
    LET ahead == {c \in cuts : c >= from}
    IN IF ahead = {}
       THEN (IF Strip(SubSeq(s, from, Len(s))) # <<>>
             THEN <<Strip(SubSeq(s, from, Len(s)))>> ELSE <<>>)
       ELSE <<Strip(SubSeq(s, from, Least(ahead) - 1))>> \o PiecesFrom(s, Least(ahead) + 1, cuts)

\* C13: _split_top splits a fragment at a comma exactly when the comma lies
\* outside every double-quoted string (escaped quotes do not end a string,
\* brackets inside a string do not count) and the bracket depth there is zero;
\* what it returns are the pieces between those commas.
C13_SplitTopQuoting ==
    /\ [](split.at = "done" => split.out = PiecesFrom(split.s, 1, Cuts(split.s)))
    /\ [][split.at = "loop" /\ split'.at = "loop" =>
             (Len(split'.out) > Len(split.out) <=> split.i \in Cuts(split.s))]_vars

C13_Witness ==
    /\ split.at = "done"
    /\ split.s = <<"\"", "\\", "\"", ",", "\"">>
    /\ split.out = <<split.s>>

\* ------------------------------------------------------------ toggles
\* The breakpoints of rows that are at the address a.
AtAddr(rows, a) ==
    {i \in 1..Len(rows) : "addr" \in DOMAIN rows[i] /\ Int16(rows[i].addr) = a}

\* The breakpoints of a fetched list a toggle of want may delete.
Matching(bps, want) ==
    {i \in 1..Len(bps) : /\ "addr" \in DOMAIN bps[i]
                          /\ bps[i].addr # <<>>
                          /\ Int16(bps[i].addr) # ValueError
                          /\ Int16(bps[i].addr) = want}

\* The one command that changes breakpoints a toggle of want is to issue.
Mutation(bps, want) ==
    IF Matching(bps, want) # {}
    THEN "-break-delete " \o bps[Least(Matching(bps, want))].number
    ELSE "-break-insert *" \o Hex(want)

\* A toggle of caller c that has issued its second command.
Toggled(c) == op[c] = "api_break_toggle" /\ step[c] = 2

\* C11: a toggle at A, in any spelling, that begins with gdb at rest and one
\* breakpoint at A leaves none at A once gdb is at rest again, and one that
\* begins with none at A leaves exactly one, inserted at *0x<hex>.
C11_ToggleIdempotent ==
    \A c \in Callers :
        Toggled(c) /\ pc[c] = "ret" /\ stdin = <<>> /\ loc[c].before.quiet =>
            LET was == Cardinality(AtAddr(loc[c].before.rows, loc[c].want))
                is == Cardinality(AtAddr(table.rows, loc[c].want))
            IN /\ was = 1 => is = 0
               /\ was = 0 => is = 1 /\ loc[c].sent[2] = "-break-insert *" \o Hex(loc[c].want)

\* C12: a toggle issues, after its list command, exactly one command that
\* changes breakpoints: the delete of the first breakpoint of the list it
\* fetched whose address is present, is hexadecimal and equals the requested
\* one, else the insert at * and the canonical hex; breakpoints without an
\* address or with one that is no number are passed over, and the toggle goes
\* on to that command whatever the list holds.
C12_OneMutation ==
    /\ [](\A c \in Callers :
             Toggled(c) =>
                 loc[c].sent = <<"-break-list", Mutation(loc[c].bps, loc[c].want)>>)
    /\ [][\A c \in Callers :
             /\ op[c] = "api_break_toggle" /\ step[c] = 1 /\ pc[c] = "ret"
             /\ pc'[c] # pc[c]
             => /\ Toggled(c)'
                /\ loc'[c].bps = list_breakpoints(call[c].ret)
                /\ call'[c].text = Mutation(list_breakpoints(call[c].ret), loc[c].want)]_vars

\* A toggle at main, spelt without 0x and in upper case, deletes the second
\* breakpoint of its list, after one whose address is no number.
C12_Witness ==
    \E c \in Callers :
        /\ Toggled(c)
        /\ loc[c].addr = <<"4", "0", "1", "A", "0", "0">>
        /\ Len(loc[c].bps) = 2
        /\ Matching(loc[c].bps, loc[c].want) = {2}
        /\ loc[c].sent[2] = "-break-delete 2"
====
